---- MODULE Spec2Model ----
(***************************************************************************)
(* PocketRAG (NaveenChand755/pocket-rag): ingestion, embedding client and  *)
(* hybrid retrieval, modelled from the TypeScript sources.                 *)
(*                                                                         *)
(* Six specifications share this module.  Each one drives its own group    *)
(* of variables and leaves the other groups at their initial values:       *)
(*   SpecIngest  - routes/learn.ts, services/ingest/index.ts               *)
(*   SpecEmbed   - services/ai/embedding.ts, services/ai.ts                *)
(*   SpecEmbedLive - SpecEmbed with the fairness of the event loop         *)
(*   SpecSearch  - services/search/index.ts and its FTS-prefilter variant  *)
(*   SpecRerank  - rerank of services/ai.ts and of utils/reranker          *)
(*   SpecChunk   - chunking/semantic-chunker.ts                            *)
(***************************************************************************)
EXTENDS Integers, Sequences, FiniteSets, TLC

(***************************************************************************)
(* Bounds of the model.                                                    *)
(***************************************************************************)
\* number of HTTP requests to the ingestion API
MaxCalls == 2
\* number of chunks the chunker produces for the larger document
MaxChunks == 2
\* number of ingestPDF calls made in one behaviour, over all requests
MaxIngests == 2
\* number of texts given to embedBatch
MaxTexts == 3
\* largest value of the concurrency parameter of embedBatch
MaxConcurrency == 2
\* OLLAMA_BATCH_SIZE, scaled down from 32
BatchSize == 2
\* number of chunks in the store that is searched
MaxDocs == 4
\* k of the vector statements (k = 30, knnSearch(db, qVector, 30)), scaled
\* down so that a store can hold a chunk the vector signal does not return
VectorK == 2
\* number of stored chunks with the same content
MaxCopies == 2
\* number of words of a query
MaxQueryWords == 2
\* number of candidates given to rerank
MaxCandidates == 2
\* number of times a word stands in the longest candidate
ManyOccurrences == 64
\* length, in UTF-16 code units, of a text given to the chunker
MaxTextLen == 4
\* largest small value of chunkSize
MaxChunkSize == 3

(***************************************************************************)
(* Small helpers.                                                          *)
(***************************************************************************)
Max(S) == CHOOSE x \in S : \A y \in S : y <= x

(***************************************************************************)
(* State.                                                                  *)
(***************************************************************************)
\* ingestion
VARIABLES
  chunks,        \* committed rows of table chunks
  chunks_fts,    \* committed rows of the FTS5 table chunks_fts
  vec_index,     \* committed rows of the vec0 table vec_index
  tx,            \* the open write transaction and its uncommitted tables
  pc,            \* position of every request
  file,          \* fileName of the request's current ingestPDF call
  ingests,       \* number of ingestPDF calls made so far
  skipDuplicate, \* options.skipDuplicate of the request's ingestPDF calls
  nchunks,       \* chunks.length of the file being ingested
  embeddings,    \* indexes i for which embeddings[i] is defined
  results        \* IngestResult of the request's last ingestPDF call

\* embedding client
VARIABLES
  impl,          \* the source file whose embedBatch runs
  texts,         \* argument texts, indexed from 0
  concurrency,   \* argument concurrency
  epc,           \* position of the embedBatch call
  wave,          \* loop variable i of the wave loop
  batches,       \* state of every batch (processBatch / one request of ai.ts)
  embResults,    \* the array results = new Array(texts.length)
  thrown,        \* the error embedBatch rejected with
  failedIdx      \* index of the text whose call made embedBatch reject

\* search
VARIABLES
  searchImpl,    \* the variant of services/search whose functions run
  docs,          \* content of the stored chunks, by chunk id
  query,         \* argument query, a sequence of words
  mode,          \* argument mode
  spc,           \* position of the search call
  response,      \* the SearchResult[] the call resolved with
  threw,         \* the signals that threw: embed, vector, fts
  vectorRaw,     \* hybridSearch: rows of the vector statement
  ftsRaw,        \* hybridSearch: rows of the FTS statement
  sortedResults  \* hybridSearch: the fused entries, sorted and sliced

\* rerank
VARIABLES
  rerankImpl,    \* the source file whose rerank runs
  candidates,    \* argument results, a RankedResult[]
  rquery,        \* argument query, a sequence of words
  rpc,           \* position of the rerank call
  reranked       \* the RankedResult[] the call returned

\* chunker
VARIABLES
  text,          \* argument text of chunk, a sequence of UTF-16 code units
  chunkSize,     \* constructor argument chunkSize
  chunkOverlap,  \* constructor argument chunkOverlap
  cpc,           \* position of the chunk call
  chunked        \* the string[] the call returned

ingestVars == <<chunks, chunks_fts, vec_index, tx, pc, file, ingests,
                skipDuplicate, nchunks, embeddings, results>>

embedVars == <<impl, texts, concurrency, epc, wave, batches, embResults,
               thrown, failedIdx>>

searchVars == <<searchImpl, docs, query, mode, spc, response, threw,
                vectorRaw, ftsRaw, sortedResults>>

rerankVars == <<rerankImpl, candidates, rquery, rpc, reranked>>

chunkVars == <<text, chunkSize, chunkOverlap, cpc, chunked>>

vars == <<ingestVars, embedVars, searchVars, rerankVars, chunkVars>>

\* a specification that does not use the embedding client leaves it here
EmbedUnused ==
  /\ impl = "none"
  /\ texts = <<>>
  /\ concurrency = 0
  /\ epc = "unused"
  /\ wave = 0
  /\ batches = <<>>
  /\ embResults = <<>>
  /\ thrown = <<>>
  /\ failedIdx = -1

\* a specification that does not search leaves the search request here
SearchUnused ==
  /\ searchImpl = "none"
  /\ docs = <<>>
  /\ query = <<>>
  /\ mode = "none"
  /\ spc = "unused"
  /\ response = <<>>
  /\ threw = {}
  /\ vectorRaw = <<>>
  /\ ftsRaw = <<>>
  /\ sortedResults = <<>>

\* a specification that does not call rerank on its own leaves it here
RerankUnused ==
  /\ rerankImpl = "none"
  /\ candidates = <<>>
  /\ rquery = <<>>
  /\ rpc = "unused"
  /\ reranked = <<>>

\* a specification that does not chunk leaves the chunker here
ChunkUnused ==
  /\ text = <<>>
  /\ chunkSize = 0
  /\ chunkOverlap = 0
  /\ cpc = "unused"
  /\ chunked = <<>>

(***************************************************************************)
(*                              INGESTION                                  *)
(***************************************************************************)
Calls == 1..MaxCalls

Files == {"a.pdf", "b.pdf"}

\* number of chunks SemanticChunker.chunk returns for the text of a file
DocChunks(f) == IF f = "a.pdf" THEN MaxChunks ELSE 1

NoTx == [open |-> FALSE, owner |-> 0, chunks |-> {}, chunks_fts |-> {},
         vec_index |-> {}, i |-> 0, stmt |-> "none", rowid |-> 0]

NoResult == [success |-> FALSE, fileName |-> "none", chunks |-> 0,
             error |-> "no call yet"]

\* SELECT COUNT(*) as count FROM chunks WHERE source = ?
checkExists(f) == Cardinality({r \in chunks : r.source = f})

\* the database as another connection reads it: journal_mode = WAL gives a
\* reader the last committed snapshot, never the writer's open transaction
ReaderView == [chunks |-> chunks, chunks_fts |-> chunks_fts,
               vec_index |-> vec_index]

fileName(c) == file[c]

IngestEmpty ==
  /\ chunks = {}
  /\ chunks_fts = {}
  /\ vec_index = {}
  /\ tx = NoTx
  /\ pc = [c \in Calls |-> "idle"]
  /\ file = [c \in Calls |-> "none"]
  /\ ingests = 0
  /\ skipDuplicate = [c \in Calls |-> FALSE]
  /\ nchunks = [c \in Calls |-> 0]
  /\ embeddings = [c \in Calls |-> {}]
  /\ results = [c \in Calls |-> NoResult]

IngestInit ==
  /\ IngestEmpty
  /\ EmbedUnused
  /\ SearchUnused
  /\ RerankUnused
  /\ ChunkUnused

\* the variables of the other specifications (they stay at their initial values)
nonIngestVars == <<embedVars, searchVars, rerankVars, chunkVars>>

\* what AI.embedBatch(chunks, 20) resolves with: the set of indexes i whose
\* embeddings[i] is defined; results[idx] = r.embedding stores whatever the
\* body of the response holds under embedding, undefined when it has none
EmbedReturns(n) == SUBSET (1..n)

\* return of one ingestPDF call: to the route handler of /learn, which
\* answers, or into the loop of ingestMultiplePDFs
Return(c, res) ==
  /\ results' = [results EXCEPT ![c] = res]
  /\ nchunks' = [nchunks EXCEPT ![c] = 0]
  /\ embeddings' = [embeddings EXCEPT ![c] = {}]
  /\ pc' = [pc EXCEPT ![c] = IF skipDuplicate[c] THEN "looping" ELSE "done"]

Ok(f, n) == [success |-> TRUE, fileName |-> f, chunks |-> n,
             error |-> "none"]

Failed(f, msg) == [success |-> FALSE, fileName |-> f, chunks |-> 0,
                   error |-> msg]

\* the duplicate check of ingestPDF
IsDuplicateNever(c) == FALSE

IsDuplicate(c) == skipDuplicate[c] /\ checkExists(fileName(c)) > 0

\* POST /learn: ingestPDF(buffer, file.name), no options
Learn(c, f) ==
  /\ ~tx.open
  /\ pc[c] = "idle"
  /\ \A d \in Calls : d < c => pc[d] # "idle"
  /\ ingests < MaxIngests
  /\ ingests' = ingests + 1
  /\ file' = [file EXCEPT ![c] = f]
  /\ skipDuplicate' = [skipDuplicate EXCEPT ![c] = FALSE]
  /\ pc' = [pc EXCEPT ![c] = "called"]
  /\ UNCHANGED <<chunks, chunks_fts, vec_index, tx, nchunks, embeddings,
                 results>>
  /\ UNCHANGED nonIngestVars

\* POST /learn/bulk: ingestMultiplePDFs(files) enters its loop; f is the
\* first file of the list
LearnBulk(c, f) ==
  /\ ~tx.open
  /\ pc[c] = "idle"
  /\ \A d \in Calls : d < c => pc[d] # "idle"
  /\ ingests < MaxIngests
  /\ ingests' = ingests + 1
  /\ file' = [file EXCEPT ![c] = f]
  /\ skipDuplicate' = [skipDuplicate EXCEPT ![c] = TRUE]
  /\ pc' = [pc EXCEPT ![c] = "called"]
  /\ UNCHANGED <<chunks, chunks_fts, vec_index, tx, nchunks, embeddings,
                 results>>
  /\ UNCHANGED nonIngestVars

\* the loop of ingestMultiplePDFs goes on with the next file of the list,
\* again with skipDuplicate: true
BulkNext(c, f) ==
  /\ ~tx.open
  /\ pc[c] = "looping"
  /\ ingests < MaxIngests
  /\ ingests' = ingests + 1
  /\ file' = [file EXCEPT ![c] = f]
  /\ pc' = [pc EXCEPT ![c] = "called"]
  /\ UNCHANGED <<chunks, chunks_fts, vec_index, tx, skipDuplicate, nchunks,
                 embeddings, results>>
  /\ UNCHANGED nonIngestVars

\* the list of ingestMultiplePDFs is exhausted: the results are returned
BulkDone(c) ==
  /\ ~tx.open
  /\ pc[c] = "looping"
  /\ pc' = [pc EXCEPT ![c] = "done"]
  /\ UNCHANGED <<chunks, chunks_fts, vec_index, tx, file, ingests,
                 skipDuplicate, nchunks, embeddings, results>>
  /\ UNCHANGED nonIngestVars

\* ingestPDF from its entry to its first await: the duplicate check
IngestPDF(c) ==
  /\ ~tx.open
  /\ pc[c] = "called"
  /\ IF IsDuplicate(c)
       THEN Return(c, Ok(fileName(c), 0))
       ELSE /\ pc' = [pc EXCEPT ![c] = "parsing"]
            /\ UNCHANGED <<results, nchunks, embeddings>>
  /\ UNCHANGED <<chunks, chunks_fts, vec_index, tx, file, ingests,
                 skipDuplicate>>
  /\ UNCHANGED nonIngestVars

\* pdf(fileBuffer) resolved with text: chunk it and call AI.embedBatch
PdfParsed(c) ==
  /\ ~tx.open
  /\ pc[c] = "parsing"
  /\ nchunks' = [nchunks EXCEPT ![c] = DocChunks(fileName(c))]
  /\ pc' = [pc EXCEPT ![c] = "embedding"]
  /\ UNCHANGED <<chunks, chunks_fts, vec_index, tx, file, ingests,
                 skipDuplicate, embeddings, results>>
  /\ UNCHANGED nonIngestVars

\* pdf(fileBuffer) rejected, or its text is empty: caught, returned as failure
PdfFailed(c, msg) ==
  /\ ~tx.open
  /\ pc[c] = "parsing"
  /\ Return(c, Failed(fileName(c), msg))
  /\ UNCHANGED <<chunks, chunks_fts, vec_index, tx, file, ingests,
                 skipDuplicate>>
  /\ UNCHANGED nonIngestVars

\* AI.embedBatch resolved: db.transaction(...)() begins
EmbedResolved(c) ==
  /\ ~tx.open
  /\ pc[c] = "embedding"
  /\ \E have \in EmbedReturns(nchunks[c]) :
        embeddings' = [embeddings EXCEPT ![c] = have]
  /\ tx' = [open |-> TRUE, owner |-> c, chunks |-> chunks,
            chunks_fts |-> chunks_fts, vec_index |-> vec_index,
            i |-> 1, stmt |-> "chunk", rowid |-> 0]
  /\ pc' = [pc EXCEPT ![c] = "storing"]
  /\ UNCHANGED <<chunks, chunks_fts, vec_index, file, ingests,
                 skipDuplicate, nchunks, results>>
  /\ UNCHANGED nonIngestVars

\* AI.embedBatch rejected: caught, returned as failure
EmbedRejected(c) ==
  /\ ~tx.open
  /\ pc[c] = "embedding"
  /\ Return(c, Failed(fileName(c), "embedding failed"))
  /\ UNCHANGED <<chunks, chunks_fts, vec_index, tx, file, ingests,
                 skipDuplicate>>
  /\ UNCHANGED nonIngestVars

\* rowid SQLite gives the next row of an INTEGER PRIMARY KEY table
NewRowId(rows) == IF rows = {} THEN 1 ELSE Max({r.id : r \in rows}) + 1

\* one statement of the transaction body, for chunk tx.i
InsertStep(c) ==
  /\ tx.open /\ tx.owner = c
  /\ tx.i <= nchunks[c]
  /\ IF tx.stmt = "chunk"
       THEN IF tx.i \notin embeddings[c]
              THEN \* if (!chunk || !embedding) continue
                   tx' = [tx EXCEPT !.i = @ + 1]
              ELSE \* insertChunk.run(chunk, fileName); getLastRowId.get()
                   LET id == NewRowId(tx.chunks) IN
                   tx' = [tx EXCEPT
                            !.chunks = @ \cup {[id |-> id,
                                                content |-> <<fileName(c), tx.i>>,
                                                source |-> fileName(c)]},
                            !.rowid = id, !.stmt = "fts"]
       ELSE IF tx.stmt = "fts"
         THEN \* insertChunkFts.run(chunk, chunkResult.rowid)
              tx' = [tx EXCEPT
                       !.chunks_fts = @ \cup {[chunk_id |-> tx.rowid,
                                               content |-> <<fileName(c), tx.i>>]},
                       !.stmt = "vec"]
         ELSE \* insertVector(db, chunkResult.rowid, embedding)
              tx' = [tx EXCEPT
                       !.vec_index = @ \cup {[chunk_id |-> tx.rowid]},
                       !.stmt = "chunk", !.i = @ + 1]
  /\ UNCHANGED <<chunks, chunks_fts, vec_index, pc, file, ingests,
                 skipDuplicate, nchunks, embeddings, results>>
  /\ UNCHANGED nonIngestVars

\* the tables after the transaction body threw: ROLLBACK
AfterThrowAutocommit(committed, working) == working

AfterThrow(committed, working) == committed

\* the loop is over: COMMIT, then return success with chunks.length
Commit(c) ==
  /\ tx.open /\ tx.owner = c
  /\ tx.i > nchunks[c]
  /\ chunks' = tx.chunks
  /\ chunks_fts' = tx.chunks_fts
  /\ vec_index' = tx.vec_index
  /\ tx' = NoTx
  /\ Return(c, Ok(fileName(c), nchunks[c]))
  /\ UNCHANGED <<file, ingests, skipDuplicate>>
  /\ UNCHANGED nonIngestVars

\* a statement of the transaction throws: rolled back, caught, returned as
\* failure
InsertThrows(c) ==
  /\ tx.open /\ tx.owner = c
  /\ tx.i <= nchunks[c]
  /\ tx.i \in embeddings[c]
  /\ LET after == AfterThrow(ReaderView,
                             [chunks |-> tx.chunks,
                              chunks_fts |-> tx.chunks_fts,
                              vec_index |-> tx.vec_index]) IN
       /\ chunks' = after.chunks
       /\ chunks_fts' = after.chunks_fts
       /\ vec_index' = after.vec_index
  /\ tx' = NoTx
  /\ Return(c, Failed(fileName(c), "storage failed"))
  /\ UNCHANGED <<file, ingests, skipDuplicate>>
  /\ UNCHANGED nonIngestVars

IngestNext ==
  \/ \E c \in Calls, f \in Files : Learn(c, f)
  \/ \E c \in Calls, f \in Files : LearnBulk(c, f)
  \/ \E c \in Calls, f \in Files : BulkNext(c, f)
  \/ \E c \in Calls : BulkDone(c)
  \/ \E c \in Calls : IngestPDF(c)
  \/ \E c \in Calls : PdfParsed(c)
  \/ \E c \in Calls : PdfFailed(c, "PDF contains no extractable text")
  \/ \E c \in Calls : EmbedResolved(c)
  \/ \E c \in Calls : EmbedRejected(c)
  \/ \E c \in Calls : InsertStep(c)
  \/ \E c \in Calls : Commit(c)
  \/ \E c \in Calls : InsertThrows(c)

SpecIngest == IngestInit /\ [][IngestNext]_vars

(***************************************************************************)
(* Claims about ingestion.                                                 *)
(***************************************************************************)
\* number of rows a reader sees that hold chunk i of file f
Copies(V, f, i) ==
  Cardinality({r \in V.chunks : r.source = f /\ r.content = <<f, i>>})

\* C1: in every state a reader can observe (before, during and after an
\* ingest, also one whose transaction throws part-way) every visible chunk
\* row has its lexical and its vector entry, no lexical or vector entry is
\* visible without its chunk row, and a document is visible as a whole or
\* not at all: every chunk of it is visible as often as every other.
C1_AtomicIngest ==
  LET V == ReaderView IN
  /\ \A e \in V.chunks_fts : \E r \in V.chunks : r.id = e.chunk_id
  /\ \A v \in V.vec_index : \E r \in V.chunks : r.id = v.chunk_id
  /\ \A r \in V.chunks :
        /\ \E e \in V.chunks_fts : e.chunk_id = r.id /\ e.content = r.content
        /\ \E v \in V.vec_index : v.chunk_id = r.id
  /\ \A f \in Files : \A i \in 1..DocChunks(f) :
        Copies(V, f, i) = Copies(V, f, 1)

\* a transaction has written a chunk row whose lexical or vector entry is
\* still missing, after an earlier transaction was rolled back
C1_Witness ==
  /\ tx.open
  /\ tx.stmt \in {"fts", "vec"}
  /\ tx.chunks # chunks
  /\ \E c \in Calls : results[c].error = "storage failed"

\* C2: after any sequence of calls of the ingestion API the store holds
\* every chunk of a file at most once.
C2_NoDoubleIndexing ==
  \A f \in Files : \A i \in 1..DocChunks(f) : Copies(ReaderView, f, i) <= 1

\* C3: the step of ingestPDF that finds skipDuplicate set and at least one
\* stored chunk of the file returns success with chunks = 0, issues no
\* embedding call (it never reaches the pdf parse nor AI.embedBatch) and
\* leaves the store as it is.
C3_SkipIsIdempotent ==
  [][\A c \in Calls :
       (pc[c] = "called" /\ pc'[c] # "called"
          /\ skipDuplicate[c] /\ checkExists(file[c]) > 0)
       => /\ results'[c] = Ok(file[c], 0)
          /\ pc'[c] = "looping"
          /\ chunks' = chunks
          /\ chunks_fts' = chunks_fts
          /\ vec_index' = vec_index
          /\ tx' = tx]_vars

\* a request has been answered with a skip of a file that is stored
C3_Witness ==
  \E c \in Calls :
     /\ results[c].success /\ results[c].chunks = 0
     /\ skipDuplicate[c]
     /\ checkExists(results[c].fileName) > 0

(***************************************************************************)
(*                          EMBEDDING CLIENT                               *)
(***************************************************************************)
Impls == {"embedding.ts", "ai.ts"}

\* the distinct input texts
TextAt(k) == <<"text", k>>

\* the embedding the backend computes for a text
Embedding(t) == <<"embedding of", t>>

\* an element of new Array(n) that was never assigned
Undefined == <<>>

NumTexts == Cardinality(DOMAIN texts)

Min(a, b) == IF a < b THEN a ELSE b

RECURSIVE Pow2(_)
Pow2(a) == IF a = 0 THEN 1 ELSE 2 * Pow2(a - 1)

\* texts of one request: embedding.ts posts a batch to /api/embed, ai.ts
\* posts every text by itself to /api/embeddings
BatchLen == IF impl = "embedding.ts" THEN BatchSize ELSE 1

NumBatches == (NumTexts + BatchLen - 1) \div BatchLen

startIdx(b) == b * BatchLen

\* batch.texts.length
BatchTexts(b) == Min(BatchLen, NumTexts - startIdx(b))

\* parameter retries of ollamaFetch; ollamaFetch of ai.ts makes one attempt
Retries == IF impl = "embedding.ts" THEN 2 ELSE 0

\* the AbortController timeout of ollamaFetch; ollamaFetch of ai.ts has none
HasTimeout == impl = "embedding.ts"

\* the errors an attempt ends with
HttpError(endpoint) == <<"Ollama ", endpoint, " failed: ", "model not found">>

NetworkError == <<"fetch failed">>

AbortError == <<"The operation was aborted">>

ErrorOf(cause, endpoint) ==
  IF cause = "http" THEN HttpError(endpoint)
  ELSE IF cause = "network" THEN NetworkError
  ELSE AbortError

\* how an attempt can fail: !res.ok, a rejected fetch, or the abort of the
\* timeout when there is one
Failures(timer) == {"http", "network"} \cup (IF timer THEN {"timeout"} ELSE {})

NoBatch == [phase |-> "pending", endpoint |-> "none", net |-> "none",
            attempt |-> 0, timer |-> FALSE, backoff |-> 0,
            lastError |-> <<>>, item |-> 0, local |-> <<>>,
            batchFailed |-> "no"]

\* ollamaFetch(endpoint, ...) up to its first await fetch
StartFetch(B, endpoint) ==
  [B EXCEPT !.endpoint = endpoint, !.net = "inflight", !.attempt = 0,
            !.timer = HasTimeout, !.backoff = 0, !.lastError = <<>>]

\* batches.slice(i, i + concurrency)
WaveAll(i) == {b \in 0..(NumBatches - 1) : i <= b}

Wave(i) == {b \in 0..(NumBatches - 1) : i <= b /\ b < i + concurrency}

\* processBatch(batch) up to its first await; a request of processChunk
ProcessBatch(B) ==
  IF impl = "embedding.ts"
    THEN StartFetch([B EXCEPT !.phase = "batch"], "/api/embed")
    ELSE StartFetch([B EXCEPT !.phase = "items"], "/api/embeddings")

\* one turn of the wave loop with loop variable i: dispatch the wave, or
\* leave the loop and return results
Dispatch(i, bs) ==
  /\ wave' = i
  /\ IF i < NumBatches
       THEN /\ batches' = [b \in DOMAIN bs |->
                             IF b \in Wave(i) THEN ProcessBatch(bs[b])
                                              ELSE bs[b]]
            /\ epc' = "wave"
       ELSE /\ batches' = bs
            /\ epc' = "resolved"

EmbedInit ==
  /\ impl \in Impls
  /\ texts \in {[k \in 0..(n - 1) |-> TextAt(k)] : n \in 0..MaxTexts}
  /\ concurrency \in 0..MaxConcurrency
  /\ epc = "called"
  /\ wave = 0
  /\ batches = <<>>
  /\ embResults = <<>>
  /\ thrown = <<>>
  /\ failedIdx = -1
  /\ IngestEmpty
  /\ SearchUnused
  /\ RerankUnused
  /\ ChunkUnused

nonEmbedVars == <<ingestVars, searchVars, rerankVars, chunkVars>>

\* embedBatch(texts, concurrency) up to its first await
EmbedBatch ==
  /\ epc = "called"
  /\ IF NumTexts = 0
       THEN /\ epc' = "resolved"
            /\ UNCHANGED <<wave, batches, embResults>>
       ELSE /\ embResults' = [k \in DOMAIN texts |-> Undefined]
            /\ Dispatch(0, [b \in 0..(NumBatches - 1) |-> NoBatch])
  /\ UNCHANGED <<impl, texts, concurrency, thrown, failedIdx>>
  /\ UNCHANGED nonEmbedVars

\* results[batch.startIdx + idx] = emb
ResultIndexNoOffset(start, idx) == idx

ResultIndex(start, idx) == start + idx

\* embeddings.forEach((emb, idx) => results[batch.startIdx + idx] = emb)
Store(b, embs) ==
  [k \in DOMAIN embResults |->
     IF \E idx \in 0..(Len(embs) - 1) : ResultIndex(startIdx(b), idx) = k
       THEN embs[1 + CHOOSE idx \in 0..(Len(embs) - 1) :
                        ResultIndex(startIdx(b), idx) = k]
       ELSE embResults[k]]

Finished(B) == [NoBatch EXCEPT !.phase = "done", !.endpoint = B.endpoint,
                               !.batchFailed = B.batchFailed]

\* the promise of batch b settled as nb: Promise.all of the wave rejects with
\* the first rejection, resolves with the last fulfilment, and the wave loop
\* goes on
Settled(b, nb) ==
  LET bs == [batches EXCEPT ![b] = nb] IN
  IF epc # "wave"
    THEN /\ batches' = bs
         /\ UNCHANGED <<epc, wave, thrown, failedIdx>>
  ELSE IF nb.phase = "failed"
    THEN /\ batches' = bs
         /\ epc' = "rejected"
         /\ thrown' = nb.lastError
         /\ failedIdx' = startIdx(b) + nb.item
         /\ UNCHANGED wave
  ELSE IF \A w \in Wave(wave) : bs[w].phase = "done"
    THEN /\ Dispatch(wave + concurrency, bs)
         /\ UNCHANGED <<thrown, failedIdx>>
  ELSE /\ batches' = bs
       /\ UNCHANGED <<epc, wave, thrown, failedIdx>>

\* what generateBatchEmbeddings does when its batched call threw or its
\* response was malformed
AfterBatchFailureRethrow == "rethrow"

AfterBatchFailure == "fallback"

\* the catch block of generateBatchEmbeddings
BatchFailed(b, why, err) ==
  LET B == [batches[b] EXCEPT !.batchFailed = why] IN
  IF AfterBatchFailure = "fallback"
    THEN /\ batches' = [batches EXCEPT ![b] =
                          StartFetch([B EXCEPT !.phase = "items", !.item = 0,
                                               !.local = <<>>],
                                     "/api/embeddings")]
         /\ UNCHANGED <<epc, wave, thrown, failedIdx>>
    ELSE Settled(b, [B EXCEPT !.phase = "failed", !.net = "none",
                              !.timer = FALSE, !.lastError = err])

\* an attempt is answered with res.ok.  resp = "ok": the body is what the
\* endpoint promises; resp = "miscount": the body of /api/embed carries a
\* number of embeddings different from the number of inputs
FetchResolved(b, resp) ==
  /\ b \in DOMAIN batches
  /\ batches[b].net = "inflight"
  /\ LET B == batches[b] IN
     IF B.phase = "batch"
       THEN IF resp = "ok"
              THEN \* return res.embeddings
                   /\ embResults' =
                        Store(b, [k \in 1..BatchTexts(b) |->
                                    Embedding(texts[startIdx(b) + k - 1])])
                   /\ Settled(b, Finished(B))
              ELSE \* throw new Error("Malformed batch response")
                   /\ BatchFailed(b, "miscount", <<"Malformed batch response">>)
                   /\ UNCHANGED embResults
       ELSE /\ resp = "ok"
            /\ LET local == Append(B.local,
                                   Embedding(texts[startIdx(b) + B.item])) IN
               IF B.item + 1 < BatchTexts(b)
                 THEN \* results.push(res.embedding); next text of the loop
                      /\ batches' = [batches EXCEPT ![b] =
                                       StartFetch([B EXCEPT !.local = local,
                                                            !.item = @ + 1],
                                                  "/api/embeddings")]
                      /\ UNCHANGED <<epc, wave, thrown, failedIdx, embResults>>
                 ELSE \* return results
                      /\ embResults' = Store(b, local)
                      /\ Settled(b, Finished(B))
  /\ UNCHANGED <<impl, texts, concurrency>>
  /\ UNCHANGED nonEmbedVars

\* an attempt fails: caught as lastError; backoff and retry, or throw lastError
FetchRejected(b, cause) ==
  /\ b \in DOMAIN batches
  /\ batches[b].net = "inflight"
  /\ cause \in Failures(batches[b].timer)
  /\ LET B == batches[b]
         err == ErrorOf(cause, B.endpoint)
         B1 == [B EXCEPT !.lastError = err, !.timer = FALSE] IN
     IF B.attempt < Retries
       THEN /\ batches' = [batches EXCEPT ![b] =
                             [B1 EXCEPT !.net = "backoff",
                                        !.backoff = Pow2(B.attempt)]]
            /\ UNCHANGED <<epc, wave, thrown, failedIdx>>
       ELSE IF B.phase = "batch"
              THEN BatchFailed(b, "exhausted", err)
              ELSE Settled(b, [B1 EXCEPT !.phase = "failed", !.net = "none"])
  /\ UNCHANGED <<impl, texts, concurrency, embResults>>
  /\ UNCHANGED nonEmbedVars

\* the backoff timer fires: next attempt
BackoffElapsed(b) ==
  /\ b \in DOMAIN batches
  /\ batches[b].net = "backoff"
  /\ batches' = [batches EXCEPT ![b] =
                   [@ EXCEPT !.net = "inflight", !.attempt = @ + 1,
                             !.timer = HasTimeout]]
  /\ UNCHANGED <<impl, texts, concurrency, epc, wave, embResults, thrown,
                 failedIdx>>
  /\ UNCHANGED nonEmbedVars

EmbedNext ==
  \/ EmbedBatch
  \/ \E b \in 0..(MaxTexts - 1), resp \in {"ok", "miscount"} :
        FetchResolved(b, resp)
  \/ \E b \in 0..(MaxTexts - 1), cause \in {"http", "network", "timeout"} :
        FetchRejected(b, cause)
  \/ \E b \in 0..(MaxTexts - 1) : BackoffElapsed(b)

SpecEmbed == EmbedInit /\ [][EmbedNext]_vars

\* the attempt of batch b that is in flight comes to an end: it is answered,
\* it fails, or its timeout aborts it
FetchSettles(b) ==
  \/ \E resp \in {"ok", "miscount"} : FetchResolved(b, resp)
  \/ \E cause \in {"http", "network", "timeout"} : FetchRejected(b, cause)

\* the event loop runs every continuation that is ready, every attempt comes
\* to an end and every backoff timer fires
EmbedFair ==
  /\ WF_vars(EmbedBatch)
  /\ \A b \in 0..(MaxTexts - 1) :
        WF_vars(FetchSettles(b)) /\ WF_vars(BackoffElapsed(b))

SpecEmbedLive == EmbedInit /\ [][EmbedNext]_vars /\ EmbedFair

Active(b) == batches[b].phase \in {"batch", "items"}

\* number of the wave that batch b belongs to
WaveOf(b) == IF concurrency > 0 THEN b \div concurrency ELSE b

\* C5: never more than `concurrency` batches are being processed, and a batch
\* is started only when every batch of every earlier wave has completed.
C5_BoundedWaves ==
  /\ Cardinality({b \in DOMAIN batches : Active(b)}) <= concurrency
  /\ \A a, b \in DOMAIN batches :
        (batches[b].phase # "pending" /\ a < b
           /\ WaveOf(a) # WaveOf(b))
        => batches[a].phase = "done"

\* a batch of a later wave is in flight
C5_Witness ==
  /\ epc = "wave"
  /\ wave > 0
  /\ \E b \in Wave(wave) : batches[b].net = "inflight"

\* C6: every attempt in flight carries a timeout, is one of at most three
\* attempts, attempt a+1 follows a backoff of 2^a seconds, and the error
\* embedBatch rejects with is the last error of the failed call.
C6_BoundedRetry ==
  /\ \A b \in DOMAIN batches :
        /\ batches[b].net = "inflight" => batches[b].timer
        /\ batches[b].attempt <= 2
        /\ (batches[b].net = "inflight" /\ batches[b].attempt > 0)
              => batches[b].backoff = Pow2(batches[b].attempt - 1)
  /\ epc = "rejected" =>
        \E b \in DOMAIN batches :
           batches[b].phase = "failed" /\ batches[b].lastError = thrown

IdentifiesInput(err, k) ==
  \E j \in DOMAIN err : err[j] = ToString(k) \/ err[j] = ToString(texts[k])

\* C8: when embedBatch rejects, a per-item call failed and the error
\* identifies the input of that call by its index or its text.
C8_ErrorIdentifiesInput ==
  epc = "rejected" =>
     /\ \E b \in DOMAIN batches :
           batches[b].phase = "failed" /\ batches[b].endpoint = "/api/embeddings"
     /\ IdentifiesInput(thrown, failedIdx)

(***************************************************************************)
(*                               SEARCH                                    *)
(***************************************************************************)
\* ---- text: a word is a string, Letters gives its spelling ----
Letters(w) ==
  CASE w = "run" -> <<"r", "u", "n">>
    [] w = "running" -> <<"r", "u", "n", "n", "i", "n", "g">>
    [] w = "the" -> <<"t", "h", "e">>
    [] w = "cat" -> <<"c", "a", "t">>
    [] w = "a" -> <<"a">>
    [] w = "pdf" -> <<"p", "d", "f">>
    [] w = "is" -> <<"i", "s">>
    [] w = "are" -> <<"a", "r", "e">>
    [] w = "was" -> <<"w", "a", "s">>
    [] w = "were" -> <<"w", "e", "r", "e">>
    [] w = "who" -> <<"w", "h", "o">>
    [] w = "what" -> <<"w", "h", "a", "t">>
    [] w = "where" -> <<"w", "h", "e", "r", "e">>
    [] w = "when" -> <<"w", "h", "e", "n">>
    [] w = "why" -> <<"w", "h", "y">>
    [] w = "how" -> <<"h", "o", "w">>
    [] w = "which" -> <<"w", "h", "i", "c", "h">>
    [] w = "c++" -> <<"c", "+", "+">>

Lexicon == {"run", "running", "the", "cat", "a", "pdf", "is", "are", "was",
            "were", "who", "what", "where", "when", "why", "how", "which",
            "c++"}

WordOf(letters) == CHOOSE w \in Lexicon : Letters(w) = letters

\* the words of queries and of chunk contents
Vocabulary == {"run", "running", "the", "cat"}

Queries == UNION {[1..n -> Vocabulary] : n \in 1..MaxQueryWords}

Contents == {<<"run">>, <<"running">>, <<"cat">>, <<"run", "cat">>}

IsPrefix(p, s) == Len(p) <= Len(s) /\ SubSeq(s, 1, Len(p)) = p

RECURSIVE Flatten(_)
Flatten(ss) == IF ss = <<>> THEN <<>> ELSE Head(ss) \o Flatten(Tail(ss))

\* the string of a sequence of words: the words with one blank between them
RECURSIVE Join(_)
Join(ws) ==
  IF ws = <<>> THEN <<>>
  ELSE IF Len(ws) = 1 THEN Letters(ws[1])
  ELSE Letters(ws[1]) \o <<" ">> \o Join(Tail(ws))

\* String.prototype.includes
Includes(hay, needle) ==
  \E i \in 1..(Len(hay) - Len(needle) + 1) :
     SubSeq(hay, i, i + Len(needle) - 1) = needle

Take(s, n) == SubSeq(s, 1, Min(n, Len(s)))

\* ---- utils/query-processor.ts ----
STOP_WORDS ==
  {"what", "who", "where", "when", "why", "how", "which", "whom", "the", "a",
   "an", "is", "are", "was", "were", "be", "been", "being", "have", "has",
   "had", "do", "does", "did", "will", "would", "could", "should", "may",
   "might", "must", "shall", "can", "need", "dare", "this", "that", "these",
   "those", "i", "you", "he", "she", "it", "we", "they", "me", "him", "her",
   "us", "them", "my", "your", "his", "its", "our", "their", "mine", "yours",
   "hers", "ours", "theirs", "and", "or", "but", "if", "then", "else", "of",
   "at", "by", "for", "with", "about", "against", "between", "into",
   "through", "during", "before", "after", "above", "below", "to", "from",
   "up", "down", "in", "out", "on", "off", "over", "under", "again",
   "further", "once", "here", "there", "all", "each", "few", "more", "most",
   "other", "some", "such", "no", "nor", "not", "only", "own", "same", "so",
   "than", "too", "very", "just", "describe", "tell", "explain", "give",
   "show"}

QuestionWords == {"who", "what", "where", "when", "why", "how", "which"}

BeWords == {"is", "are", "was", "were"}

\* second replace of smartSplit, on one word: (is|are|was|were)([a-z]{3,})
SplitBeWord(w) ==
  LET L == Letters(w)
      vs == {v \in BeWords :
               IsPrefix(Letters(v), L) /\ Len(L) - Len(Letters(v)) >= 3} IN
  IF vs = {} THEN <<w>>
  ELSE LET v == CHOOSE x \in vs : TRUE IN
       <<v, WordOf(SubSeq(L, Len(Letters(v)) + 1, Len(L)))>>

\* smartSplit on one word: (who|what|...)(is|are|was|were) is split off first
smartSplit(w) ==
  LET L == Letters(w)
      qvs == {qv \in QuestionWords \X BeWords :
                IsPrefix(Letters(qv[1]) \o Letters(qv[2]), L)} IN
  IF qvs = {} THEN SplitBeWord(w)
  ELSE LET qv == CHOOSE x \in qvs : TRUE
           rest == SubSeq(L, Len(Letters(qv[1])) + Len(Letters(qv[2])) + 1,
                          Len(L)) IN
       <<qv[1], qv[2]>> \o
         (IF rest = <<>> THEN <<>> ELSE SplitBeWord(WordOf(rest)))

IsKeyTerm(w) == Len(Letters(w)) > 2 /\ w \notin STOP_WORDS

extractKeyTerms(q) ==
  SelectSeq(Flatten([i \in DOMAIN q |-> smartSplit(q[i])]), IsKeyTerm)

\* the FTS5 expression: the key terms as prefix tokens joined by OR, or the
\* whole query as one phrase when it has no key term
sanitizeFTSQuery(q) ==
  LET terms == extractKeyTerms(q) IN
  IF terms = <<>> THEN [kind |-> "phrase", words |-> q]
                  ELSE [kind |-> "prefixes", words |-> terms]

\* ---- FTS5 with tokenize = 'porter unicode61' ----
\* Porter stem of a word of the lexicon
Stem(w) == IF w = "running" THEN "run" ELSE w

\* column MATCH expression
FtsMatches(fq, tokens) ==
  IF fq.kind = "prefixes"
    THEN \E i \in DOMAIN fq.words, j \in DOMAIN tokens :
            IsPrefix(Letters(Stem(fq.words[i])), Letters(Stem(tokens[j])))
    ELSE \E off \in 0..(Len(tokens) - Len(fq.words)) :
            \A i \in DOMAIN fq.words :
               Stem(tokens[off + i]) = Stem(fq.words[i])

\* unicode61 tokens of a file name
FilenameTokens(f) == IF f = "a.pdf" THEN <<"a", "pdf">> ELSE <<>>

\* ---- numbers: a score is a fraction <<numerator, denominator>> ----
RECURSIVE GCD(_, _)
GCD(a, b) == IF b = 0 THEN a ELSE GCD(b, a % b)

Frac(n, d) == LET g == GCD(n, d) IN <<n \div g, d \div g>>

Plus(x, y) ==
  LET g == GCD(x[2], y[2]) IN
  Frac(x[1] * (y[2] \div g) + y[1] * (x[2] \div g), x[2] * (y[2] \div g))

Times(x, y) == Frac(x[1] * y[1], x[2] * y[2])

\* x < y for fractions that are not negative
RECURSIVE Less(_, _)
Less(x, y) ==
  LET qx == x[1] \div x[2]
      qy == y[1] \div y[2]
      rx == x[1] % x[2]
      ry == y[1] % y[2] IN
  IF qx # qy THEN qx < qy
  ELSE IF ry = 0 THEN FALSE
  ELSE IF rx = 0 THEN TRUE
  ELSE Less(<<y[2], ry>>, <<x[2], rx>>)

\* Array.prototype.sort with a comparator: Before(a, b) is compare(a, b) < 0.
\* The sort is stable: elements that compare equal keep their order.
SortedPosition(s, i, Before(_, _)) ==
  1 + Cardinality({j \in DOMAIN s :
                     \/ Before(s[j], s[i])
                     \/ j < i /\ ~Before(s[i], s[j])})

Sort(s, Before(_, _)) ==
  [p \in DOMAIN s |->
     s[CHOOSE i \in DOMAIN s : SortedPosition(s, i, Before) = p]]

\* ---- AI.rerank (services/ai.ts) ----
stopWords ==
  {"what", "who", "where", "when", "why", "how", "which", "whom", "the", "a",
   "an", "is", "are", "was", "were", "be", "been", "being", "have", "has",
   "had", "do", "does", "did", "will", "would", "could", "should", "may",
   "might", "must", "shall", "can", "this", "that", "describe", "tell",
   "explain", "give", "show", "about", "between", "and", "or", "but", "for",
   "with", "from", "into"}

IsRerankTerm(w) == Len(Letters(w)) > 2 /\ w \notin stopWords

keyTerms(q) == SelectSeq(q, IsRerankTerm)

\* number of matches of the regular expression \bterm\b in the content
Matches(term, content) ==
  Cardinality({j \in DOMAIN content : content[j] = term})

RECURSIVE TotalMatches(_, _)
TotalMatches(terms, content) ==
  IF terms = <<>> THEN 0
  ELSE Matches(Head(terms), content) + TotalMatches(Tail(terms), content)

\* the element of scored for one result, given the key terms of the query
ScoredWith(r, q, terms) ==
  LET matchCount == Cardinality({i \in DOMAIN terms :
                                   Matches(terms[i], r.content) > 0})
      boosted == Plus(r.score, <<TotalMatches(terms, r.content), 1>>)
      matchRatio == Frac(matchCount, Len(terms))
      score == Plus(Times(matchRatio, <<10, 1>>), Times(boosted, <<1, 10>>)) IN
  [content |-> r.content,
   score |-> IF Includes(Join(r.content), Join(q)) THEN Plus(score, <<1, 1>>)
                                                   ELSE score,
   matchCount |-> matchCount]

Scored(r, q) == ScoredWith(r, q, keyTerms(q))

\* scored.filter((r) => r.matchCount >= 1)
PassesFilter(r) == r.matchCount >= 1

\* (a, b) => b.score - a.score
ScoreDescending(a, b) == Less(b.score, a.score)

rerank(rs, q) ==
  IF keyTerms(q) = <<>> THEN rs
  ELSE LET scored == [i \in DOMAIN rs |-> Scored(rs[i], q)]
           sorted == Take(Sort(SelectSeq(scored, PassesFilter),
                               ScoreDescending), 15) IN
       [i \in DOMAIN sorted |->
          [content |-> sorted[i].content, score |-> sorted[i].score]]

\* ---- rerank of utils/reranker, the version that scores like AI.rerank ----
\* scored.filter((r) => r.matchCount >= 0)
PassesFilterUtils(r) == r.matchCount >= 0

rerankUtils(rs, q) ==
  IF extractKeyTerms(q) = <<>> THEN rs
  ELSE LET scored == [i \in DOMAIN rs |->
                        ScoredWith(rs[i], q, extractKeyTerms(q))]
           sorted == Take(Sort(SelectSeq(scored, PassesFilterUtils),
                               ScoreDescending), 15) IN
       [i \in DOMAIN sorted |->
          [content |-> sorted[i].content, score |-> sorted[i].score]]

\* ---- the store as the search statements read it ----
\* cosine distance, in tenths, between the query and the vector of chunk i:
\* 0.0 for the nearest chunk, 1.0 from there on
DistanceAt(i) == IF i = 1 THEN 0 ELSE 10

Row(i) == [content |-> docs[i], filename |-> "a.pdf",
           distance |-> DistanceAt(i)]

ByDistance(a, b) == a.distance < b.distance

\* the rows of the chunks with an id of ids, from chunk i on
RECURSIVE RowsOf(_, _)
RowsOf(ids, i) ==
  IF i > Len(docs) THEN <<>>
  ELSE (IF i \in ids THEN <<Row(i)>> ELSE <<>>) \o RowsOf(ids, i + 1)

\* SELECT ... WHERE embedding MATCH ? ORDER BY distance, k rows
KNN(k) == Take(Sort(RowsOf(1..Len(docs), 1), ByDistance), k)

\* the rows a MATCH of the FTS5 table selects: the old table docs indexes
\* filename and content, chunks_fts indexes content
FtsRowMatches(q, i) ==
  LET fq == sanitizeFTSQuery(q) IN
  \/ FtsMatches(fq, docs[i])
  \/ searchImpl = "rrf" /\ FtsMatches(fq, FilenameTokens("a.pdf"))

FtsIds(q) == {i \in 1..Len(docs) : FtsRowMatches(q, i)}

\* the orders ORDER BY bm25(...) can give the selected rows: bm25 is not
\* computed, every order is possible
FtsOrders(q) ==
  {o \in [1..Cardinality(FtsIds(q)) -> FtsIds(q)] :
     \A i, j \in DOMAIN o : i # j => o[i] # o[j]}

\* the rows of the FTS statement in order o; rank follows the order
FtsRows(o) ==
  [p \in DOMAIN o |-> [content |-> docs[o[p]], filename |-> "a.pdf",
                       rank |-> 0 - (Len(o) - p + 1)]]

Abs(x) == IF x < 0 THEN 0 - x ELSE x

\* first element of rows with the content
FindByContent(rows, content) ==
  rows[CHOOSE i \in DOMAIN rows :
         /\ rows[i].content = content
         /\ \A j \in 1..(i - 1) : rows[j].content # content]

\* ---- vectorSearch after its await ----
vectorSearch(vRaw, q) ==
  LET top == Take(rerank([i \in DOMAIN vRaw |->
                            [content |-> vRaw[i].content,
                             score |-> Frac(10 - vRaw[i].distance, 10)]],
                         q), 10) IN
  [i \in DOMAIN top |-> FindByContent(vRaw, top[i].content)]

\* ---- ftsSearch ----
ftsSearch(ftsResults) ==
  [i \in DOMAIN ftsResults |->
     [content |-> ftsResults[i].content,
      filename |-> ftsResults[i].filename,
      distance |-> 10 - Min(10, Abs(ftsResults[i].rank))]]

\* ---- hybridSearch with Reciprocal Rank Fusion ----
\* const k = 60
K == 60

HasKey(m, content) == \E i \in DOMAIN m : m[i].content = content

KeyIndex(m, content) == CHOOSE i \in DOMAIN m : m[i].content = content

\* Map.prototype.set: a new key is appended, a known key keeps its place
MapSet(m, e) ==
  IF HasKey(m, e.content) THEN [m EXCEPT ![KeyIndex(m, e.content)] = e]
                          ELSE Append(m, e)

\* vectorRaw.forEach((doc, rank) => ...), from element i on
RECURSIVE ProcessVector(_, _, _)
ProcessVector(m, vRaw, i) ==
  IF i > Len(vRaw) THEN m
  ELSE LET doc == vRaw[i]
           rrf == Frac(1, K + (i - 1) + 1)
           distanceBonus == Times(Frac(10 - doc.distance, 10), <<1, 10>>) IN
       IF doc.content = <<>>
         THEN ProcessVector(m, vRaw, i + 1)
         ELSE ProcessVector(MapSet(m, [content |-> doc.content,
                                       score |-> Plus(rrf, distanceBonus),
                                       doc |-> doc, inBoth |-> FALSE]),
                            vRaw, i + 1)

\* ftsRaw.forEach((doc, rank) => ...), from element i on
RECURSIVE ProcessFts(_, _, _)
ProcessFts(m, fRaw, i) ==
  IF i > Len(fRaw) THEN m
  ELSE LET doc == fRaw[i]
           rrf == Frac(1, K + (i - 1) + 1) IN
       IF doc.content = <<>>
         THEN ProcessFts(m, fRaw, i + 1)
       ELSE IF ~HasKey(m, doc.content)
         THEN ProcessFts(Append(m, [content |-> doc.content, score |-> rrf,
                                    doc |-> [content |-> doc.content,
                                             filename |-> doc.filename,
                                             distance |-> 5],
                                    inBoth |-> FALSE]),
                         fRaw, i + 1)
       ELSE LET at == KeyIndex(m, doc.content) IN
            ProcessFts([m EXCEPT ![at] =
                          [@ EXCEPT !.score = Plus(Times(@, <<2, 1>>), rrf),
                                    !.inBoth = TRUE]],
                       fRaw, i + 1)

\* a comparator that orders by score alone
FusedBeforeScoreOnly(a, b) == Less(b.score, a.score)

\* the comparator of sortedResults
FusedBefore(a, b) ==
  \/ a.inBoth /\ ~b.inBoth
  \/ a.inBoth = b.inBoth /\ Less(b.score, a.score)

\* the Map scores after both forEach loops, in insertion order
Scores(vRaw, fRaw) == ProcessFts(ProcessVector(<<>>, vRaw, 1), fRaw, 1)

\* Array.from(scores.values()).sort(...).slice(0, 15)
SortedResults(vRaw, fRaw) == Take(Sort(Scores(vRaw, fRaw), FusedBefore), 15)

\* hybridSearch from the re-ranking on
Reranked(sorted, q) ==
  LET top == Take(rerank([i \in DOMAIN sorted |->
                            [content |-> sorted[i].content,
                             score |-> sorted[i].score]], q), 8) IN
  [i \in DOMAIN top |-> FindByContent(sorted, top[i].content).doc]

\* hybridSearch from the fusion on
Fuse(vRaw, fRaw, q) == Reranked(SortedResults(vRaw, fRaw), q)

\* ---- reciprocalRankFusion (utils/reranker.ts) ----
\* const RRF_K = 60
RRF_K == 60

\* a ranked list, Map<content, rank>, of the rows of a statement
RankedList(rows) ==
  [i \in DOMAIN rows |-> [content |-> rows[i].content, rank |-> i - 1]]

\* rrfScores.get(content) || 0
ScoreOf(rrfScores, content) ==
  IF HasKey(rrfScores, content)
    THEN rrfScores[KeyIndex(rrfScores, content)].score
    ELSE <<0, 1>>

\* for (const [content, rank] of rankedList), from entry i on
RECURSIVE AddRankedList(_, _, _, _)
AddRankedList(rrfScores, rankedList, i, k) ==
  IF i > Len(rankedList) THEN rrfScores
  ELSE LET content == rankedList[i].content
           rrfContribution == Frac(1, k + rankedList[i].rank + 1) IN
       AddRankedList(
         MapSet(rrfScores,
                [content |-> content,
                 score |-> Plus(ScoreOf(rrfScores, content), rrfContribution)]),
         rankedList, i + 1, k)

\* for (const rankedList of rankedLists), from list n on
RECURSIVE FuseFrom(_, _, _, _)
FuseFrom(rrfScores, rankedLists, n, k) ==
  IF n > Len(rankedLists) THEN rrfScores
  ELSE FuseFrom(AddRankedList(rrfScores, rankedLists[n], 1, k),
                rankedLists, n + 1, k)

reciprocalRankFusion(rankedLists, k) == FuseFrom(<<>>, rankedLists, 1, k)

\* ---- hybridSearch with FTS pre-filtering ----
\* prefilterByText: the ids of the rows that match
prefilterByText(q) == FtsIds(q)

\* hybridSearch of db/fts-index: KNN over the candidates
ftsHybridSearch(candidateIds, k) ==
  IF candidateIds = {} THEN <<>>
  ELSE Take(Sort(RowsOf(candidateIds, 1), ByDistance), k)

\* ---- the search request ----
Modes == {"vector", "fts", "hybrid"}

SearchImpls == {"rrf", "prefilter"}

\* the stores: up to MaxDocs chunks, up to MaxCopies of them with one content
Stores ==
  {d \in UNION {[1..n -> Contents] : n \in 0..MaxDocs} :
     \A c \in Contents : Cardinality({i \in DOMAIN d : d[i] = c}) <= MaxCopies}

SearchInit ==
  /\ searchImpl \in SearchImpls
  /\ docs \in Stores
  /\ query \in Queries
  /\ mode \in Modes
  /\ spc = "called"
  /\ response = <<>>
  /\ threw = {}
  /\ vectorRaw = <<>>
  /\ ftsRaw = <<>>
  /\ sortedResults = <<>>
  /\ IngestEmpty
  /\ EmbedUnused
  /\ RerankUnused
  /\ ChunkUnused

nonSearchVars == <<ingestVars, embedVars, rerankVars, chunkVars>>

\* search(query, mode) up to the first await of the function it routes to;
\* ftsSearch has none
Search(throws) ==
  /\ spc = "called"
  /\ IF mode = "fts"
       THEN IF throws
              THEN /\ spc' = "failed"
                   /\ threw' = {"fts"}
                   /\ UNCHANGED response
              ELSE /\ \E order \in FtsOrders(query) :
                        response' = ftsSearch(FtsRows(order))
                   /\ spc' = "done"
                   /\ UNCHANGED threw
       ELSE /\ ~throws
            /\ spc' = "embedding"
            /\ UNCHANGED <<response, threw>>
  /\ UNCHANGED <<searchImpl, docs, query, mode, vectorRaw, ftsRaw,
                 sortedResults>>
  /\ UNCHANGED nonSearchVars

\* AI.embed(query) rejected
QueryEmbedFailed ==
  /\ spc \in {"embedding", "fallback"}
  /\ spc' = "failed"
  /\ threw' = threw \cup {"embed"}
  /\ UNCHANGED <<searchImpl, docs, query, mode, response, vectorRaw, ftsRaw,
                 sortedResults>>
  /\ UNCHANGED nonSearchVars

\* vectorSearch after AI.embed resolved, also when hybridSearch of the
\* pre-filtering variant returned vectorSearch(query)
VectorSearch(throws) ==
  /\ \/ spc = "embedding" /\ mode = "vector"
     \/ spc = "fallback"
  /\ IF throws
       THEN /\ spc' = "failed"
            /\ threw' = threw \cup {"vector"}
            /\ UNCHANGED response
       ELSE /\ response' = vectorSearch(KNN(VectorK), query)
            /\ spc' = "done"
            /\ UNCHANGED threw
  /\ UNCHANGED <<searchImpl, docs, query, mode, vectorRaw, ftsRaw,
                 sortedResults>>
  /\ UNCHANGED nonSearchVars

\* hybridSearch of services/search/index.ts after AI.embed resolved.
\* vector1, fts: the statements inside try throw; vector2: the statement of
\* the catch block throws
HybridSearchRRF(vector1, fts, vector2) ==
  /\ spc = "embedding" /\ mode = "hybrid" /\ searchImpl = "rrf"
  /\ vector1 => ~fts
  /\ IF ~vector1 /\ ~fts
       THEN /\ ~vector2
            /\ \E order \in FtsOrders(query) :
                 LET sorted == SortedResults(KNN(VectorK), FtsRows(order)) IN
                 /\ vectorRaw' = KNN(VectorK)
                 /\ ftsRaw' = FtsRows(order)
                 /\ sortedResults' = sorted
                 /\ response' = Reranked(sorted, query)
            /\ spc' = "done"
            /\ UNCHANGED threw
       ELSE /\ threw' = (IF fts THEN {"fts"} ELSE {})
                          \cup (IF vector1 \/ vector2 THEN {"vector"} ELSE {})
            /\ IF vector2
                 THEN /\ spc' = "failed"
                      /\ UNCHANGED <<response, vectorRaw, ftsRaw,
                                     sortedResults>>
                 ELSE LET sorted == SortedResults(KNN(VectorK), <<>>) IN
                      /\ vectorRaw' = KNN(VectorK)
                      /\ ftsRaw' = <<>>
                      /\ sortedResults' = sorted
                      /\ response' = Reranked(sorted, query)
                      /\ spc' = "done"
  /\ UNCHANGED <<searchImpl, docs, query, mode>>
  /\ UNCHANGED nonSearchVars

\* hybridSearch of the pre-filtering variant after AI.embed resolved.
\* fts: the statement of prefilterByText throws; vector: the KNN statement
\* over the candidates throws
HybridSearchPrefilter(fts, vector) ==
  /\ spc = "embedding" /\ mode = "hybrid" /\ searchImpl = "prefilter"
  /\ fts => ~vector
  /\ IF fts
       THEN /\ spc' = "failed"
            /\ threw' = {"fts"}
            /\ UNCHANGED response
     ELSE IF prefilterByText(query) = {}
       THEN \* results.length === 0: return vectorSearch(query)
            /\ ~vector
            /\ spc' = "fallback"
            /\ UNCHANGED <<response, threw>>
     ELSE IF vector
       THEN /\ spc' = "failed"
            /\ threw' = {"vector"}
            /\ UNCHANGED response
     ELSE /\ response' =
               vectorSearch(ftsHybridSearch(prefilterByText(query), VectorK), query)
          /\ spc' = "done"
          /\ UNCHANGED threw
  /\ UNCHANGED <<searchImpl, docs, query, mode, vectorRaw, ftsRaw,
                 sortedResults>>
  /\ UNCHANGED nonSearchVars

SearchNext ==
  \/ \E throws \in BOOLEAN : Search(throws)
  \/ QueryEmbedFailed
  \/ \E throws \in BOOLEAN : VectorSearch(throws)
  \/ \E vector1, fts, vector2 \in BOOLEAN :
        HybridSearchRRF(vector1, fts, vector2)
  \/ \E fts, vector \in BOOLEAN : HybridSearchPrefilter(fts, vector)

SpecSearch == SearchInit /\ [][SearchNext]_vars

(***************************************************************************)
(*                               RERANK                                    *)
(* rerank as a function of its arguments: AI.rerank of services/ai.ts,     *)
(* which the search service calls, and rerank of utils/reranker in the     *)
(* version that scores the same way.                                       *)
(***************************************************************************)
RerankImpls == {"ai.ts", "part_005"}

\* a chunk in which one word stands ManyOccurrences times
ManyCats == [i \in 1..ManyOccurrences |-> "cat"]

CandidateContents == Contents \cup {ManyCats, <<"c++", "run">>}

\* the words of the queries given to rerank
RerankVocabulary == Vocabulary \cup {"c++"}

RerankQueries == UNION {[1..n -> RerankVocabulary] : n \in 1..MaxQueryWords}

\* new RegExp(`\\b${termNormalized}\\b`, "gi") throws SyntaxError, nothing to
\* repeat: the term is put into the pattern as it is, and a + that follows
\* \b or another + has nothing to repeat
NothingToRepeat(term) ==
  LET L == Letters(term) IN
  \E i \in DOMAIN L : L[i] = "+" /\ (i = 1 \/ L[i - 1] = "+")

\* the key terms of the running rerank
RunningKeyTerms(q) ==
  IF rerankImpl = "ai.ts" THEN keyTerms(q) ELSE extractKeyTerms(q)

\* results.map builds the regular expression of every key term for every
\* result
RerankThrows(rs, q) ==
  /\ rs # <<>>
  /\ \E i \in DOMAIN RunningKeyTerms(q) : NothingToRepeat(RunningKeyTerms(q)[i])

\* the original signal scores of the candidates
OriginalScores == {<<1, 10>>, <<9, 10>>}

Candidates == [content : CandidateContents, score : OriginalScores]

RerankInit ==
  /\ rerankImpl \in RerankImpls
  /\ candidates \in UNION {[1..n -> Candidates] : n \in 0..MaxCandidates}
  /\ rquery \in RerankQueries
  /\ rpc = "called"
  /\ reranked = <<>>
  /\ IngestEmpty
  /\ EmbedUnused
  /\ SearchUnused
  /\ ChunkUnused

nonRerankVars == <<ingestVars, embedVars, searchVars, chunkVars>>

\* rerank(results, query)
Rerank ==
  /\ rpc = "called"
  /\ IF RerankThrows(candidates, rquery)
       THEN /\ rpc' = "threw"
            /\ UNCHANGED reranked
       ELSE /\ reranked' = (IF rerankImpl = "ai.ts"
                              THEN rerank(candidates, rquery)
                              ELSE rerankUtils(candidates, rquery))
            /\ rpc' = "done"
  /\ UNCHANGED <<rerankImpl, candidates, rquery>>
  /\ UNCHANGED nonRerankVars

RerankNext == Rerank

SpecRerank == RerankInit /\ [][RerankNext]_vars

(***************************************************************************)
(* Claims about search.                                                    *)
(***************************************************************************)
\* what the vector signal alone gives hybridSearch
VectorAlone ==
  IF searchImpl = "rrf" THEN Fuse(KNN(VectorK), <<>>, query)
                        ELSE vectorSearch(KNN(VectorK), query)

\* C9: when the lexical statement of a hybrid search throws, the request
\* fails only if the vector statement or the query embedding fails too, and
\* otherwise it answers with the results of the vector signal alone.
C9_LexicalFailureTolerated ==
  (mode = "hybrid" /\ "fts" \in threw) =>
     /\ spc = "failed" => threw \cap {"vector", "embed"} # {}
     /\ spc = "done" => response = VectorAlone

\* C10: a hybrid search in which no statement failed answers with at least
\* one result whenever vector-only search or lexical-only search of the same
\* query over the same store has at least one result.
C10_HybridNeverEmpty ==
  (mode = "hybrid" /\ spc = "done" /\ threw = {}
     /\ (vectorSearch(KNN(VectorK), query) # <<>> \/ FtsIds(query) # {}))
  => response # <<>>

\* the positions of rows at which the content stands
Positions(rows, content) == {i \in DOMAIN rows : rows[i].content = content}

\* a hybrid search of services/search/index.ts has returned its results
FusionDone == mode = "hybrid" /\ searchImpl = "rrf" /\ spc = "done"

\* C11: the fused score of a document is the sum, over the vector list and
\* the lexical list, of 1/(K + r + 1) for its 0-indexed rank r in the list,
\* with K = 60; a list without the document adds 0, and no distance and no
\* lexical score enters.  The right-hand side is reciprocalRankFusion over
\* the two lists; a document has a rank when its content stands in a list
\* at most once.
C11_PureReciprocalRankFusion ==
  FusionDone =>
    \A i \in DOMAIN sortedResults :
       LET content == sortedResults[i].content IN
       (/\ Cardinality(Positions(vectorRaw, content)) <= 1
        /\ Cardinality(Positions(ftsRaw, content)) <= 1)
       => sortedResults[i].score =
            ScoreOf(reciprocalRankFusion(<<RankedList(vectorRaw),
                                           RankedList(ftsRaw)>>, K),
                    content)

\* the content stands in the vector list and in the lexical list
InBothLists(content) ==
  Positions(vectorRaw, content) # {} /\ Positions(ftsRaw, content) # {}

\* C12: in the fused ordering of a hybrid search, every document that stands
\* in both the vector list and the lexical list comes before every document
\* that stands in only one of them, whatever the ranks and the distances.
C12_BothSignalsFirst ==
  FusionDone =>
    \A i, j \in DOMAIN sortedResults :
       (/\ InBothLists(sortedResults[i].content)
        /\ ~InBothLists(sortedResults[j].content)) => i < j

\* a document of both lists stands before a document of one list that has
\* the higher fused score
C12_Witness ==
  /\ FusionDone
  /\ \E i, j \in DOMAIN sortedResults :
        /\ i < j
        /\ InBothLists(sortedResults[i].content)
        /\ ~InBothLists(sortedResults[j].content)
        /\ Less(sortedResults[i].score, sortedResults[j].score)

(***************************************************************************)
(* Claims about rerank.                                                    *)
(***************************************************************************)
\* the key terms the running rerank extracts from the query
TermsOf(q) == IF rerankImpl = "ai.ts" THEN keyTerms(q) ELSE extractKeyTerms(q)

\* number of query terms found in the content by word-boundary match
MatchCount(c) ==
  Cardinality({i \in DOMAIN TermsOf(rquery) :
                 Matches(TermsOf(rquery)[i], c.content) > 0})

MatchRatio(c) == Frac(MatchCount(c), Len(TermsOf(rquery)))

\* the content contains the whole query as a substring
PhraseMatch(c) == Includes(Join(c.content), Join(rquery))

\* matchRatio * 10 + originalSignalScore * 0.1, plus the bonus 1
CompositeScore(c) ==
  LET base == Plus(Times(MatchRatio(c), <<10, 1>>),
                   Times(c.score, <<1, 10>>)) IN
  IF PhraseMatch(c) THEN Plus(base, <<1, 1>>) ELSE base

\* first position of the content in the output, Len + 1 when it is not there
RankIn(out, content) ==
  IF \E i \in DOMAIN out : out[i].content = content
    THEN CHOOSE i \in DOMAIN out :
           /\ out[i].content = content
           /\ \A j \in 1..(i - 1) : out[j].content # content
    ELSE Len(out) + 1

\* rerank has returned for a query with at least one key term
RerankedByTerms == rpc = "done" /\ TermsOf(rquery) # <<>>

\* C13: the score rerank gives a candidate is matchRatio * 10 +
\* originalSignalScore * 0.1, plus one fixed bonus when the content contains
\* the whole query, with matchRatio the number of query terms found by
\* word-boundary match over the number of query terms.
C13_CompositeScore ==
  RerankedByTerms =>
    \A i \in DOMAIN reranked :
       \E j \in DOMAIN candidates :
          /\ candidates[j].content = reranked[i].content
          /\ reranked[i].score = CompositeScore(candidates[j])

\* C14: a candidate none of whose query terms match stays in the output (the
\* pool is below the cap of 15), and such candidates stand in the order of
\* their original scores.
C14_NoHardFilter ==
  RerankedByTerms =>
    \A a \in DOMAIN candidates :
       MatchCount(candidates[a]) = 0 =>
         /\ RankIn(reranked, candidates[a].content) <= Len(reranked)
         /\ \A b \in DOMAIN candidates :
              (/\ MatchCount(candidates[b]) = 0
               /\ candidates[b].content # candidates[a].content
               /\ Less(candidates[b].score, candidates[a].score))
              => RankIn(reranked, candidates[a].content)
                   < RankIn(reranked, candidates[b].content)

\* C15: for every candidate list and every query, also one without key
\* terms, rerank returns at most 15 candidates in non-increasing order of
\* score.
C15_CappedAndSorted ==
  rpc = "done" =>
    /\ Len(reranked) <= 15
    /\ \A i, j \in DOMAIN reranked :
         i < j => ~Less(reranked[i].score, reranked[j].score)

\* C16: a candidate that contains the whole query and every query term
\* stands before every candidate without the phrase and with a strictly
\* lower match ratio, whatever the original scores.
C16_FullMatchFirst ==
  RerankedByTerms =>
    \A a, b \in DOMAIN candidates :
       (/\ PhraseMatch(candidates[a])
        /\ MatchCount(candidates[a]) = Len(TermsOf(rquery))
        /\ ~PhraseMatch(candidates[b])
        /\ MatchCount(candidates[b]) < Len(TermsOf(rquery)))
       => RankIn(reranked, candidates[a].content)
            < RankIn(reranked, candidates[b].content)

(***************************************************************************)
(*                               CHUNKER                                   *)
(* chunking/semantic-chunker.ts.  A string is the sequence of its UTF-16   *)
(* code units; "H" and "L" are the high and the low half of a surrogate    *)
(* pair, so that a character outside the basic plane has length 2.         *)
(***************************************************************************)
Units == {"a", ".", " ", "\n", "H", "L"}

\* the text "a.\n\nb."
TwoParagraphs == <<"a", ".", "\n", "\n", "b", ".">>

Texts == UNION {[1..n -> Units] : n \in 0..MaxTextLen} \cup {TwoParagraphs}

ChunkSizes == (1..MaxChunkSize) \cup {100}

ChunkOverlaps == {0, 1, 10}

\* const SEPARATORS = ["\n\n", "\n", ". ", " ", ""]
SEPARATORS == << <<"\n", "\n">>, <<"\n">>, <<".", " ">>, <<" ">>, <<>> >>

IsWhiteSpace(u) == u \in {" ", "\n"}

\* String.prototype.trim
RECURSIVE trim(_)
trim(str) ==
  IF str = <<>> THEN <<>>
  ELSE IF IsWhiteSpace(Head(str)) THEN trim(Tail(str))
  ELSE IF IsWhiteSpace(str[Len(str)]) THEN trim(SubSeq(str, 1, Len(str) - 1))
  ELSE str

\* String.prototype.split with a separator that is not empty
RECURSIVE split(_, _)
split(str, sep) ==
  LET at == {i \in 1..(Len(str) - Len(sep) + 1) :
               SubSeq(str, i, i + Len(sep) - 1) = sep} IN
  IF at = {} THEN <<str>>
  ELSE LET i == CHOOSE x \in at : \A y \in at : x <= y IN
       <<SubSeq(str, 1, i - 1)>> \o split(SubSeq(str, i + Len(sep), Len(str)), sep)

\* [...text]: the string iterator yields code points, a surrogate pair is
\* one element of length 2
RECURSIVE spread(_)
spread(str) ==
  IF str = <<>> THEN <<>>
  ELSE IF Len(str) >= 2 /\ str[1] = "H" /\ str[2] = "L"
    THEN <<SubSeq(str, 1, 2)>> \o spread(SubSeq(str, 3, Len(str)))
    ELSE <<SubSeq(str, 1, 1)>> \o spread(Tail(str))

\* the chunks of a call and whether the call loops without end
Returned(cs) == [loops |-> FALSE, chunks |-> cs]

\* the loop of forceSplit from offset i on
RECURSIVE ForceFrom(_, _)
ForceFrom(str, i) ==
  IF i >= Len(str) THEN <<>>
  ELSE <<SubSeq(str, i + 1, Min(i + chunkSize, Len(str)))>>
         \o ForceFrom(str, i + (chunkSize - chunkOverlap))

\* forceSplit: with step <= 0 the loop variable never reaches text.length
forceSplit(str) ==
  IF chunkSize - chunkOverlap <= 0 THEN [loops |-> TRUE, chunks |-> <<>>]
                                   ELSE Returned(ForceFrom(str, 0))

\* return text.trim() ? [text.trim()] : [], kept untrimmed
ShortUntrimmed(str) == IF trim(str) # <<>> THEN <<str>> ELSE <<>>

\* return text.trim() ? [text.trim()] : []
Short(str) == IF trim(str) # <<>> THEN <<trim(str)>> ELSE <<>>

\* the flush left out
FlushNothing(cs, current) == cs

\* if (current) chunks.push(current.trim())
Flush(cs, current) ==
  IF current # <<>> THEN Append(cs, trim(current)) ELSE cs

\* the recursive split of a too large split left out
TooLargeNever(part) == FALSE

\* if (split.length > this.chunkSize)
TooLarge(part) == Len(part) > chunkSize

RECURSIVE splitRecursive(_, _)
RECURSIVE Pack(_, _, _, _, _)

\* for (const split of splits), from element i on; acc holds chunks, current
\* and whether a recursive call loops without end
Pack(splits, i, sep, restSeps, acc) ==
  IF i > Len(splits) THEN acc
  ELSE LET part == splits[i]
           candidate == IF acc.current # <<>> THEN acc.current \o sep \o part
                                              ELSE part IN
       IF Len(candidate) <= chunkSize
         THEN Pack(splits, i + 1, sep, restSeps,
                   [acc EXCEPT !.current = candidate])
       ELSE IF TooLarge(part)
         THEN LET sub == splitRecursive(part, restSeps) IN
              Pack(splits, i + 1, sep, restSeps,
                   [loops |-> acc.loops \/ sub.loops,
                    chunks |-> Flush(acc.chunks, acc.current) \o sub.chunks,
                    current |-> <<>>])
       ELSE Pack(splits, i + 1, sep, restSeps,
                 [acc EXCEPT !.chunks = Flush(acc.chunks, acc.current),
                             !.current = part])

splitRecursive(str, separators) ==
  IF Len(str) <= chunkSize THEN Returned(Short(str))
  ELSE IF separators = <<>> THEN forceSplit(str)
  ELSE LET sep == Head(separators)
           splits == IF sep # <<>> THEN split(str, sep) ELSE spread(str)
           acc == Pack(splits, 1, sep, Tail(separators),
                       [loops |-> FALSE, chunks |-> <<>>, current |-> <<>>]) IN
       [loops |-> acc.loops,
        chunks |-> IF trim(acc.current) # <<>>
                     THEN Append(acc.chunks, trim(acc.current))
                     ELSE acc.chunks]

NotEmpty(c) == Len(c) > 0

addOverlap(cs) == IF Len(cs) <= 1 THEN cs ELSE SelectSeq(cs, NotEmpty)

chunk(str) ==
  LET r == splitRecursive(str, SEPARATORS) IN
  [loops |-> r.loops, chunks |-> addOverlap(r.chunks)]

ChunkInit ==
  /\ text \in Texts
  /\ chunkSize \in ChunkSizes
  /\ chunkOverlap \in ChunkOverlaps
  /\ cpc = "called"
  /\ chunked = <<>>
  /\ IngestEmpty
  /\ EmbedUnused
  /\ SearchUnused
  /\ RerankUnused

nonChunkVars == <<ingestVars, embedVars, searchVars, rerankVars>>

\* new SemanticChunker(chunkSize, chunkOverlap).chunk(text)
Chunk ==
  /\ cpc = "called"
  /\ LET r == chunk(text) IN
     IF r.loops THEN /\ cpc' = "looping"
                     /\ UNCHANGED chunked
                ELSE /\ cpc' = "done"
                     /\ chunked' = r.chunks
  /\ UNCHANGED <<text, chunkSize, chunkOverlap>>
  /\ UNCHANGED nonChunkVars

ChunkNext == Chunk

SpecChunk == ChunkInit /\ [][ChunkNext]_vars

(***************************************************************************)
(* Claims about the chunker.                                               *)
(***************************************************************************)
\* C18 as stated: for every text with len(T) <= maxSize, chunk(T) is exactly
\* the one-element sequence [trim(T)].
C18_ShortTextOneChunk ==
  (cpc = "done" /\ Len(text) <= chunkSize) => chunked = <<trim(text)>>

\* C18 as amended: for every text with len(T) <= maxSize, chunk(T) is
\* [trim(T)] when trim(T) is not empty, and the empty sequence when the text
\* is empty or all whitespace.
C18_ShortTextOneChunkOrNone ==
  (cpc = "done" /\ Len(text) <= chunkSize) =>
     chunked = (IF trim(text) = <<>> THEN <<>> ELSE <<trim(text)>>)

\* a short text with whitespace around its content came back trimmed
C18_Witness ==
  /\ cpc = "done"
  /\ Len(text) <= chunkSize
  /\ trim(text) # <<>>
  /\ trim(text) # text
  /\ chunked = <<trim(text)>>

\* chunk("a.\n\nb.") was called with maxSize 100 and overlap 10
ExampleCall ==
  cpc = "done" /\ text = TwoParagraphs /\ chunkSize = 100 /\ chunkOverlap = 10

\* C19 as stated: chunk("a.\n\nb.", maxSize = 100, overlap = 10) is exactly
\* ["a.", "b."].
C19_ParagraphExample ==
  ExampleCall => chunked = << <<"a", ".">>, <<"b", ".">> >>

\* C19 as amended: chunk("a.\n\nb.") is the single chunk ["a.\n\nb."]
\* whenever the text fits in maxSize (maxSize >= 6, as with 100), and it is
\* ["a.", "b."], split at the paragraph break, when 2 <= maxSize <= 5.
C19_ParagraphSplitWhenTooLong ==
  (cpc = "done" /\ text = TwoParagraphs) =>
     /\ chunkSize >= 6 => chunked = <<TwoParagraphs>>
     /\ chunkSize \in 2..5 => chunked = << <<"a", ".">>, <<"b", ".">> >>

\* the text did not fit and was split at its paragraph break
C19_Witness ==
  /\ cpc = "done"
  /\ text = TwoParagraphs
  /\ chunkSize \in 2..5
  /\ chunked = << <<"a", ".">>, <<"b", ".">> >>

\* C20: for every text, maxSize >= 1 and overlap, every chunk chunk returns
\* is non-empty and has no whitespace at its start or at its end.
C20_ChunksNonEmptyTrimmed ==
  cpc = "done" =>
    \A i \in DOMAIN chunked :
       chunked[i] # <<>> /\ trim(chunked[i]) = chunked[i]

\* the text holds no line break
NoLineBreak(str) == \A i \in DOMAIN str : str[i] # "\n"

\* C21: for every input text and maxSize >= 1, every chunk chunk returns has
\* length <= maxSize, at every level of the separator hierarchy, the
\* recursive split of an oversized segment included.
C21_ChunkLengthBounded ==
  cpc = "done" => \A i \in DOMAIN chunked : Len(chunked[i]) <= chunkSize

\* a text of one paragraph and one line, longer than maxSize, was split by
\* the recursive calls into several chunks, one of them of full size
C21_Witness ==
  /\ cpc = "done"
  /\ Len(text) > chunkSize
  /\ NoLineBreak(text)
  /\ Len(chunked) >= 2
  /\ \E i \in DOMAIN chunked : Len(chunked[i]) = chunkSize
  /\ \A i \in DOMAIN chunked : Len(chunked[i]) <= chunkSize

IsContent(u) == ~IsWhiteSpace(u)

\* the units of a string that are not whitespace, in their order
ContentOf(str) == SelectSeq(str, IsContent)

\* rest is the content of the chunks from chunk i on, each chunk taken
\* without a region at its start that overlaps the chunk before
RECURSIVE Reconstructs(_, _, _)
Reconstructs(rest, cs, i) ==
  IF i > Len(cs) THEN rest = <<>>
  ELSE LET c == ContentOf(cs[i]) IN
       \E k \in 0..Len(c) :
          LET kept == SubSeq(c, k + 1, Len(c)) IN
          /\ Len(kept) <= Len(rest)
          /\ SubSeq(rest, 1, Len(kept)) = kept
          /\ Reconstructs(SubSeq(rest, Len(kept) + 1, Len(rest)), cs, i + 1)

\* C22: for every text T, the chunks of chunk(T), concatenated in their
\* order while ignoring overlap regions, reconstruct the content of T: no
\* content is reordered and no non-whitespace unit of T, the period of the
\* separator ". " included, is lost.
C22_ContentPreserved ==
  cpc = "done" => Reconstructs(ContentOf(text), chunked, 1)

\* no separator of the hierarchy occurs in the text: it holds no whitespace
Unbroken(str) == \A i \in DOMAIN str : ~IsWhiteSpace(str[i])

\* the slices of length at most maxSize at the offsets 0, s, 2s, ... below
\* the length of the text
StrideSlices(str, size, s) ==
  [j \in 1..((Len(str) + s - 1) \div s) |->
     SubSeq(str, (j - 1) * s + 1, Min((j - 1) * s + size, Len(str)))]

\* C23: when a single unbroken segment is longer than maxSize, chunk returns
\* the fixed-stride slices of length at most maxSize that start at the
\* offsets 0, s, 2s, ... with s = maxSize - overlap, so that consecutive
\* slices share overlap characters.
C23_FixedStrideFallback ==
  (/\ cpc \in {"done", "looping"}
   /\ Unbroken(text)
   /\ Len(text) > chunkSize
   /\ chunkOverlap < chunkSize) =>
     /\ cpc = "done"
     /\ chunked = StrideSlices(text, chunkSize, chunkSize - chunkOverlap)

\* C24: chunk terminates on every input with a bounded chunk count: for
\* every text T and every configuration (maxSize, overlap), overlap >=
\* maxSize included, the call does not loop without end and returns at most
\* len(T) chunks.
C24_ChunkTerminates ==
  /\ cpc # "looping"
  /\ cpc = "done" => Len(chunked) <= Len(text)

(***************************************************************************)
(* Further claims about ingestion.                                         *)
(***************************************************************************)
\* the step is the return of a failed ingestPDF call of request c
ReturnsFailure(c) ==
  /\ pc[c] \in {"called", "parsing", "embedding", "storing"}
  /\ pc'[c] \in {"done", "looping"}
  /\ ~results'[c].success

\* C25: ingestPDF never leaves partial work: every failure (no extractable
\* text, embedding failure, storage failure) is returned as {success: false,
\* chunks: 0, error: message} by a step that leaves the committed store as it
\* is and no transaction open, the store changes only in the step that
\* returns success, and a text that is empty fails at the parse, before any
\* embedding call is issued, and ends the call.
C25_FailureLeavesNoTrace ==
  [][/\ \A c \in Calls :
          ReturnsFailure(c) =>
            /\ results'[c] = Failed(file[c], results'[c].error)
            /\ results'[c].error \notin {"none", "no call yet"}
            /\ ReaderView' = ReaderView
            /\ ~tx'.open
     /\ ReaderView' # ReaderView =>
          \E c \in Calls : /\ pc[c] = "storing"
                           /\ pc'[c] \in {"done", "looping"}
                           /\ results'[c].success
     /\ \A c \in Calls :
          (ReturnsFailure(c)
             /\ results'[c].error = "PDF contains no extractable text")
          => pc[c] = "parsing"]_vars

\* one request was answered with a storage failure and another with the
\* failure of an empty text, and no chunk of either file is stored
C25_Witness ==
  \E c, d \in Calls :
     /\ pc[c] = "done" /\ pc[d] = "done"
     /\ results[c] = Failed(file[c], "storage failed")
     /\ results[d] = Failed(file[d], "PDF contains no extractable text")
     /\ checkExists(file[c]) = 0
     /\ checkExists(file[d]) = 0

\* every ingestPDF call made so far was made with skipDuplicate: true
AllSkipDuplicate == \A c \in Calls : pc[c] # "idle" => skipDuplicate[c]

\* C26: duplicate detection holds under interleaving: when every ingestPDF
\* call is made with skipDuplicate = true, also calls for the same filename
\* that overlap in time, each suspended at its parse or at its embedding
\* await between the existence check and the insert transaction, the
\* chunks of a filename are stored by at most one of them.
C26_DuplicateDetectionInterleaved ==
  AllSkipDuplicate =>
    \A f \in Files : \A i \in 1..DocChunks(f) : Copies(ReaderView, f, i) <= 1

\* the step is the return of request c from the insert transaction of
\* ingestPDF with success
ReturnsStored(c) ==
  /\ pc[c] = "storing"
  /\ pc'[c] \in {"done", "looping"}
  /\ results'[c].success

\* C28: when ingestPDF returns success for a file it did not skip as a
\* duplicate, the chunk count it reports is the number of chunks the call
\* inserted for the filename, each with its chunk row, its lexical entry and
\* its vector entry, whatever the embedding client returned.
C28_ReportedCountIsInserted ==
  [][\A c \in Calls :
       ReturnsStored(c) =>
         /\ results'[c].chunks =
              Cardinality({r \in chunks' \ chunks : r.source = file[c]})
         /\ results'[c].chunks = Cardinality(chunks_fts' \ chunks_fts)
         /\ results'[c].chunks = Cardinality(vec_index' \ vec_index)]_vars

(***************************************************************************)
(* Further claims about search.                                            *)
(***************************************************************************)
\* C27: in the fusion of hybridSearch a document is marked inBoth only if
\* its content stands in both the vector list and the lexical list; two
\* lexical hits with the same content and no vector hit are not marked.
C27_InBothOnlyIfInBoth ==
  FusionDone =>
    \A i \in DOMAIN sortedResults :
       sortedResults[i].inBoth => InBothLists(sortedResults[i].content)

(***************************************************************************)
(* Further claims about rerank.                                            *)
(***************************************************************************)
\* C29: rerank never throws: for every query, also one whose key terms hold
\* regular-expression metacharacters such as "C++", and every candidate
\* list, rerank returns a result list.
C29_RerankNeverThrows == rpc # "threw"

(***************************************************************************)
(* Further claims about the embedding client.                              *)
(***************************************************************************)
\* C30: embedBatch always completes: for every non-empty texts and every
\* concurrency value, when every network attempt eventually returns, fails
\* or times out, embedBatch eventually resolves or rejects.
C30_EmbedBatchCompletes ==
  (epc = "called" /\ NumTexts > 0) ~> (epc \in {"resolved", "rejected"})

====
